---- MODULE Spec2Model ----
(***************************************************************************)
(* Model of src/descriptors.c of the STM32 secure bootloader: the USB      *)
(* descriptor tables of the DFU device and dfu_get_descriptor, the         *)
(* GET_DESCRIPTOR callback that resolves (type, index, capacity) to a      *)
(* descriptor reference and a length.                                      *)
(***************************************************************************)
EXTENDS Integers, Sequences, FiniteSets, TLC

(***************************************************************************)
(* Bounds of the model.                                                    *)
(***************************************************************************)
\* descriptor types 0..MaxDType are requested (plus the class type and 0xFF)
MaxDType == 5
\* string indices 0..MaxIndex are requested (plus 0xFE and 0xFF)
MaxIndex == 6
\* caller capacities 0..MaxCap are requested (plus 0xFFFF)
MaxCap == 37

(***************************************************************************)
(* Constants of usb.h / inc/usb_dfu.h (USB 2.0 ch. 9, DFU 1.1) that the    *)
(* tables and the resolver use.                                            *)
(***************************************************************************)
USB_DTYPE_DEVICE == 1
USB_DTYPE_CONFIGURATION == 2
USB_DTYPE_STRING == 3
USB_DTYPE_INTERFACE == 4
USB_DTYPE_DFU_FUNCTIONAL == 33
USB_CLASS_PER_INTERFACE == 0
USB_SUBCLASS_NONE == 0
USB_PROTO_NONE == 0
USB_CLASS_DFU == 254
USB_DFU_SUBCLASS_DFU == 1
USB_DFU_PROTO_DFU == 2
USB_CFG_ATTR_RESERVED == 128
USB_CFG_ATTR_SELFPOWERED == 64
USB_DFU_ATTR_CAN_DNLOAD == 1
USB_DFU_ATTR_CAN_UPLOAD == 2
USB_DFU_ATTR_MANIF_TOL == 4
USB_DFU_ATTR_WILL_DETACH == 8
USB_LANGID_ENG_US == 1033
INTSERIALNO_DESCRIPTOR == 254

usbd_fail == "usbd_fail"
usbd_ack == "usbd_ack"
NULL == "NULL"

\* VERSION_BCD(maj, min, rev): a BCD version word
VERSION_BCD(maj, min, rev) == (maj % 256) * 256 + (min % 16) * 16 + (rev % 16)

\* USB_CFG_POWER_MA(mA): the bMaxPower unit is 2 mA
USB_CFG_POWER_MA(mA) == mA \div 2

(***************************************************************************)
(* Bitwise OR of two bytes, computed bit by bit.                           *)
(***************************************************************************)
RECURSIVE BitOr(_, _)
BitOr(a, b) ==
    IF a = 0 THEN b
    ELSE IF b = 0 THEN a
    ELSE (IF a % 2 = 1 \/ b % 2 = 1 THEN 1 ELSE 0) + 2 * BitOr(a \div 2, b \div 2)

(***************************************************************************)
(* Byte widths of the fields of the packed descriptor structs; sizeof of a *)
(* packed struct is the sum of its field widths.                           *)
(***************************************************************************)
usb_device_descriptor ==
    [bLength |-> 1, bDescriptorType |-> 1, bcdUSB |-> 2, bDeviceClass |-> 1,
     bDeviceSubClass |-> 1, bDeviceProtocol |-> 1, bMaxPacketSize0 |-> 1,
     idVendor |-> 2, idProduct |-> 2, bcdDevice |-> 2, iManufacturer |-> 1,
     iProduct |-> 1, iSerialNumber |-> 1, bNumConfigurations |-> 1]

usb_config_descriptor ==
    [bLength |-> 1, bDescriptorType |-> 1, wTotalLength |-> 2,
     bNumInterfaces |-> 1, bConfigurationValue |-> 1, iConfiguration |-> 1,
     bmAttributes |-> 1, bMaxPower |-> 1]

usb_interface_descriptor ==
    [bLength |-> 1, bDescriptorType |-> 1, bInterfaceNumber |-> 1,
     bAlternateSetting |-> 1, bNumEndpoints |-> 1, bInterfaceClass |-> 1,
     bInterfaceSubClass |-> 1, bInterfaceProtocol |-> 1, iInterface |-> 1]

usb_dfu_func_desc ==
    [bLength |-> 1, bDescriptorType |-> 1, bmAttributes |-> 1,
     wDetachTimeout |-> 2, wTransferSize |-> 2, bcdDFUVersion |-> 2]

RECURSIVE SumWidths(_, _)
SumWidths(layout, fields) ==
    IF fields = {} THEN 0
    ELSE LET f == CHOOSE x \in fields : TRUE
         IN layout[f] + SumWidths(layout, fields \ {f})

\* sizeof(struct ...) of a packed struct given by its field widths
sizeof(layout) == SumWidths(layout, DOMAIN layout)

sizeof_usb_device_descriptor == sizeof(usb_device_descriptor)
sizeof_usb_config_descriptor == sizeof(usb_config_descriptor)
sizeof_usb_interface_descriptor == sizeof(usb_interface_descriptor)
sizeof_usb_dfu_func_desc == sizeof(usb_dfu_func_desc)

(***************************************************************************)
(* State.  The first six variables are the build configuration of          *)
(* config.h (fixed once the image is built); req, address and len are the  *)
(* arguments of dfu_get_descriptor (the request record and the caller's    *)
(* two in/out cells), ret is its return value, pc is the position of the   *)
(* call.  address0, len0 and first are history variables: the values of    *)
(* *address and *len on entry to the pending or last call, and the record  *)
(* of the first completed call.                                            *)
(***************************************************************************)
VARIABLES DFU_INTF_EEPROM, DFU_CAN_UPLOAD,
          DFU_STR_MANUF, DFU_STR_PRODUCT, DFU_STR_INTF0, DFU_STR_INTF1,
          req, address, len, ret, pc,
          address0, len0, first

config == <<DFU_INTF_EEPROM, DFU_CAN_UPLOAD,
            DFU_STR_MANUF, DFU_STR_PRODUCT, DFU_STR_INTF0, DFU_STR_INTF1>>

vars == <<DFU_INTF_EEPROM, DFU_CAN_UPLOAD,
          DFU_STR_MANUF, DFU_STR_PRODUCT, DFU_STR_INTF0, DFU_STR_INTF1,
          req, address, len, ret, pc, address0, len0, first>>

(***************************************************************************)
(* struct config_desc: the packed composite, member name -> member type.   *)
(***************************************************************************)
config_desc ==
    [config |-> usb_config_descriptor, flash |-> usb_interface_descriptor]
    @@ (IF DFU_INTF_EEPROM THEN [eeprom |-> usb_interface_descriptor] ELSE <<>>)
    @@ [dfufunc |-> usb_dfu_func_desc]

\* a build that leaves the optional eeprom member out of the total
sizeof_config_desc_NoEeprom ==
    sizeof_usb_config_descriptor + sizeof_usb_interface_descriptor
    + sizeof_usb_dfu_func_desc

\* sizeof(struct config_desc): packed, the sum of the sizes of its members
sizeof_config_desc ==
    sizeof_usb_config_descriptor
    + sizeof_usb_interface_descriptor
    + (IF DFU_INTF_EEPROM THEN sizeof_usb_interface_descriptor ELSE 0)
    + sizeof_usb_dfu_func_desc

(***************************************************************************)
(* The descriptor tables.                                                  *)
(***************************************************************************)
\* a device descriptor whose product string index points past the table
dfu_device_desc_BadProduct ==
    [bLength            |-> sizeof_usb_device_descriptor,
     bDescriptorType    |-> USB_DTYPE_DEVICE,
     bcdUSB             |-> VERSION_BCD(2, 0, 0),
     bDeviceClass       |-> USB_CLASS_PER_INTERFACE,
     bDeviceSubClass    |-> USB_SUBCLASS_NONE,
     bDeviceProtocol    |-> USB_PROTO_NONE,
     bMaxPacketSize0    |-> "DFU_EP0_SIZE",
     idVendor           |-> "DFU_VENDOR_ID",
     idProduct          |-> "DFU_DEVICE_ID",
     bcdDevice          |-> VERSION_BCD(1, 0, 0),
     iManufacturer      |-> 1,
     iProduct           |-> 6,
     iSerialNumber      |-> INTSERIALNO_DESCRIPTOR,
     bNumConfigurations |-> 1]

dfu_device_desc ==
    [bLength            |-> sizeof_usb_device_descriptor,
     bDescriptorType    |-> USB_DTYPE_DEVICE,
     bcdUSB             |-> VERSION_BCD(2, 0, 0),
     bDeviceClass       |-> USB_CLASS_PER_INTERFACE,
     bDeviceSubClass    |-> USB_SUBCLASS_NONE,
     bDeviceProtocol    |-> USB_PROTO_NONE,
     bMaxPacketSize0    |-> "DFU_EP0_SIZE",
     idVendor           |-> "DFU_VENDOR_ID",
     idProduct          |-> "DFU_DEVICE_ID",
     bcdDevice          |-> VERSION_BCD(1, 0, 0),
     iManufacturer      |-> 1,
     iProduct           |-> 2,
     iSerialNumber      |-> INTSERIALNO_DESCRIPTOR,
     bNumConfigurations |-> 1]

\* USB_DFU_ATTR_CAN_DNLOAD | USB_DFU_ATTR_CAN_UPLOAD | USB_DFU_ATTR_MANIF_TOL
AttrsUpload ==
    BitOr(BitOr(USB_DFU_ATTR_CAN_DNLOAD, USB_DFU_ATTR_CAN_UPLOAD),
          USB_DFU_ATTR_MANIF_TOL)

\* the same with USB_DFU_ATTR_WILL_DETACH left in
AttrsUploadWillDetach ==
    BitOr(BitOr(USB_DFU_ATTR_CAN_DNLOAD, USB_DFU_ATTR_CAN_UPLOAD),
          BitOr(USB_DFU_ATTR_WILL_DETACH, USB_DFU_ATTR_MANIF_TOL))

\* USB_DFU_ATTR_CAN_DNLOAD | USB_DFU_ATTR_WILL_DETACH | USB_DFU_ATTR_MANIF_TOL
AttrsNoUpload ==
    BitOr(BitOr(USB_DFU_ATTR_CAN_DNLOAD, USB_DFU_ATTR_WILL_DETACH),
          USB_DFU_ATTR_MANIF_TOL)

\* the upload build with USB_DFU_ATTR_WILL_DETACH left in
dfufunc_bmAttributes_WillDetach ==
    IF DFU_CAN_UPLOAD THEN AttrsUploadWillDetach ELSE AttrsNoUpload

\* .dfufunc.bmAttributes, by DFU_CAN_UPLOAD
dfufunc_bmAttributes ==
    IF DFU_CAN_UPLOAD THEN AttrsUpload ELSE AttrsNoUpload

\* USB_CFG_ATTR_RESERVED | USB_CFG_ATTR_SELFPOWERED
config_bmAttributes == BitOr(USB_CFG_ATTR_RESERVED, USB_CFG_ATTR_SELFPOWERED)

\* .flash of dfu_config_desc
dfu_config_desc_flash ==
    [bLength            |-> sizeof_usb_interface_descriptor,
     bDescriptorType    |-> USB_DTYPE_INTERFACE,
     bInterfaceNumber   |-> 0,
     bAlternateSetting  |-> 0,
     bNumEndpoints      |-> 0,
     bInterfaceClass    |-> USB_CLASS_DFU,
     bInterfaceSubClass |-> USB_DFU_SUBCLASS_DFU,
     bInterfaceProtocol |-> USB_DFU_PROTO_DFU,
     iInterface         |-> 4]

\* .eeprom of dfu_config_desc
dfu_config_desc_eeprom ==
    [bLength            |-> sizeof_usb_interface_descriptor,
     bDescriptorType    |-> USB_DTYPE_INTERFACE,
     bInterfaceNumber   |-> 0,
     bAlternateSetting  |-> 1,
     bNumEndpoints      |-> 0,
     bInterfaceClass    |-> USB_CLASS_DFU,
     bInterfaceSubClass |-> USB_DFU_SUBCLASS_DFU,
     bInterfaceProtocol |-> USB_DFU_PROTO_DFU,
     iInterface         |-> 5]

dfu_config_desc ==
    [config |->
        [bLength             |-> sizeof_usb_config_descriptor,
         bDescriptorType     |-> USB_DTYPE_CONFIGURATION,
         wTotalLength        |-> sizeof_config_desc,
         bNumInterfaces      |-> 1,
         bConfigurationValue |-> 1,
         iConfiguration      |-> 3,
         bmAttributes        |-> config_bmAttributes,
         bMaxPower           |-> USB_CFG_POWER_MA(100)],
     flash |-> dfu_config_desc_flash]
    @@ (IF DFU_INTF_EEPROM THEN [eeprom |-> dfu_config_desc_eeprom] ELSE <<>>)
    @@ [dfufunc |->
        [bLength         |-> sizeof_usb_dfu_func_desc,
         bDescriptorType |-> USB_DTYPE_DFU_FUNCTIONAL,
         bmAttributes    |-> dfufunc_bmAttributes,
         wDetachTimeout  |-> "DFU_DETACH_TIMEOUT",
         wTransferSize   |-> "DFU_BLOCKSZ",
         bcdDFUVersion   |-> VERSION_BCD(1, 1, 0)]]

\* sizeof(dfu_config_desc): the object has the size of its type
sizeof_dfu_config_desc == sizeof_config_desc

(***************************************************************************)
(* String descriptors.  A text is the sequence of its UTF-16 code units;   *)
(* USB_STRING_DESC takes bLength from sizeof(u"text"), which counts the    *)
(* terminating NUL in place of the two header bytes, and USB_ARRAY_DESC    *)
(* from the header plus the array.  bLength is a uint8_t.                  *)
(***************************************************************************)
USB_STRING_DESC(s) ==
    [bLength         |-> (2 * (Len(s) + 1)) % 256,
     bDescriptorType |-> USB_DTYPE_STRING,
     wString         |-> s]

USB_ARRAY_DESC(a) ==
    [bLength         |-> (2 + 2 * Len(a)) % 256,
     bDescriptorType |-> USB_DTYPE_STRING,
     wString         |-> a]

\* the text "DFU mode"
DfuModeText == <<68, 70, 85, 32, 109, 111, 100, 101>>

dfu_lang_sdesc == USB_ARRAY_DESC(<<USB_LANGID_ENG_US>>)
dfu_config_sdesc == USB_STRING_DESC(DfuModeText)
dfu_manuf_sdesc == USB_STRING_DESC(DFU_STR_MANUF)
dfu_product_sdesc == USB_STRING_DESC(DFU_STR_PRODUCT)
dfu_flash_sdesc == USB_STRING_DESC(DFU_STR_INTF0)
dfu_eeprom_sdesc == USB_STRING_DESC(DFU_STR_INTF1)

\* a table with the manufacturer and product entries exchanged
dtable_Swapped ==
    <<"dfu_lang_sdesc", "dfu_product_sdesc", "dfu_manuf_sdesc",
      "dfu_config_sdesc", "dfu_flash_sdesc">>
    \o (IF DFU_INTF_EEPROM THEN <<"dfu_eeprom_sdesc">> ELSE <<>>)

\* dtable[]: the addresses of the string descriptors, C index i at i + 1
dtable ==
    <<"dfu_lang_sdesc", "dfu_manuf_sdesc", "dfu_product_sdesc",
      "dfu_config_sdesc", "dfu_flash_sdesc">>
    \o (IF DFU_INTF_EEPROM THEN <<"dfu_eeprom_sdesc">> ELSE <<>>)

\* _countof(a)
countof(a) == Len(a)

\* the objects of this file that an address can point to
Objects ==
    {"dfu_device_desc", "dfu_config_desc", "dfu_lang_sdesc", "dfu_manuf_sdesc",
     "dfu_product_sdesc", "dfu_config_sdesc", "dfu_flash_sdesc"}
    \cup (IF DFU_INTF_EEPROM THEN {"dfu_eeprom_sdesc"} ELSE {})

\* the object at an address
Deref(a) ==
    CASE a = "dfu_device_desc"   -> dfu_device_desc
      [] a = "dfu_config_desc"   -> dfu_config_desc
      [] a = "dfu_lang_sdesc"    -> dfu_lang_sdesc
      [] a = "dfu_manuf_sdesc"   -> dfu_manuf_sdesc
      [] a = "dfu_product_sdesc" -> dfu_product_sdesc
      [] a = "dfu_config_sdesc"  -> dfu_config_sdesc
      [] a = "dfu_flash_sdesc"   -> dfu_flash_sdesc
      [] a = "dfu_eeprom_sdesc"  -> dfu_eeprom_sdesc

(***************************************************************************)
(* dfu_get_descriptor, piece by piece.                                     *)
(***************************************************************************)
\* taking the type from the low byte of wValue
dtype_LowByte(wValue) == wValue % 256

\* const uint8_t dtype = req->wValue >> 8
dtype(wValue) == (wValue \div 256) % 256

\* const uint8_t dindx = req->wValue & 0xFF
dindx(wValue) == wValue % 256

\* a bound check that is off by one and rejects the last entry
InTable_SkipsLast(i) == i + 1 < countof(dtable)

\* dindx < _countof(dtable)
InTable(i) == i < countof(dtable)

\* the composite size whatever the capacity
ConfigDlen_Always(capacity) == sizeof_dfu_config_desc

\* CONFIGURATION: dlen stays 0 unless *len >= sizeof(dfu_config_desc)
ConfigDlen(capacity) ==
    IF capacity >= sizeof_dfu_config_desc THEN sizeof_dfu_config_desc ELSE 0

\* ((struct usb_string_descriptor*)desc)->bLength: the first byte of the object
bLengthAt(desc) ==
    IF desc = "dfu_config_desc" THEN dfu_config_desc.config.bLength
    ELSE Deref(desc).bLength

\* a length selection without the bLength fallback
SelectLen_NoFallback(desc, dlen) == dlen

\* if (dlen == 0) dlen = ((struct usb_string_descriptor*)desc)->bLength
SelectLen(desc, dlen) == IF dlen = 0 THEN bLengthAt(desc) ELSE dlen

\* a failing return that clears the caller's length first
Fail_ClearsLen(address_in, len_in) ==
    [ret |-> usbd_fail, address |-> address_in, len |-> 0]

\* return usbd_fail: nothing was written through address or len
Fail(address_in, len_in) ==
    [ret |-> usbd_fail, address |-> address_in, len |-> len_in]

\* *len = dlen; *address = (void*)desc; return usbd_ack  (dlen is a uint16_t)
Ack(desc, dlen) ==
    [ret |-> usbd_ack, address |-> desc, len |-> SelectLen(desc, dlen) % 65536]

\* the outcome of dfu_get_descriptor(req, address, len): the return value
\* and the values of *address and *len on return
Outcome(wValue, address_in, len_in) ==
    CASE dtype(wValue) = USB_DTYPE_DEVICE ->
            Ack("dfu_device_desc", 0)
      [] dtype(wValue) = USB_DTYPE_CONFIGURATION ->
            Ack("dfu_config_desc", ConfigDlen(len_in))
      [] dtype(wValue) = USB_DTYPE_STRING ->
            IF InTable(dindx(wValue))
            THEN Ack(dtable[dindx(wValue) + 1], 0)
            ELSE Fail(address_in, len_in)
      [] OTHER ->
            Fail(address_in, len_in)

NoCall == [wValue |-> -1]

\* the record of a completed call
CallRecord(wValue, capacity, out) ==
    [wValue |-> wValue, capacity |-> capacity, ret |-> out.ret,
     address |-> out.address, len |-> out.len]

(***************************************************************************)
(* Inputs.                                                                 *)
(***************************************************************************)
\* the sample texts a build may set DFU_STR_* to
Texts == {<<83>>, <<83, 84>>}

DTypes == (0 .. MaxDType) \cup {USB_DTYPE_DFU_FUNCTIONAL, 255}
DIndices == (0 .. MaxIndex) \cup {INTSERIALNO_DESCRIPTOR, 255}
Capacities == (0 .. MaxCap) \cup {65535}

\* wValue of a GET_DESCRIPTOR request: type in the high byte, index in the low
MakeWValue(t, i) == t * 256 + i

Requests == {MakeWValue(t, i) : t \in DTypes, i \in DIndices}

\* the requests and capacities of the sequential specification
SeqRequests ==
    {MakeWValue(USB_DTYPE_DEVICE, 0), MakeWValue(USB_DTYPE_CONFIGURATION, 0),
     MakeWValue(USB_DTYPE_STRING, 0), MakeWValue(USB_DTYPE_STRING, 2),
     MakeWValue(USB_DTYPE_STRING, 5), MakeWValue(USB_DTYPE_STRING, 6),
     MakeWValue(USB_DTYPE_STRING, INTSERIALNO_DESCRIPTOR),
     MakeWValue(USB_DTYPE_INTERFACE, 0)}
SeqCapacities == {9, 30, 64}

\* every 16-bit wValue, with the capacities around the descriptor sizes
AllRequests == 0 .. 65535
FewCapacities == {0, 9, 30, 64}

(***************************************************************************)
(* The build and the first request: the configuration is chosen once, the  *)
(* control-transfer handler has parsed a setup packet into req and set     *)
(* *len to its capacity.                                                   *)
(***************************************************************************)
InitWith(texts, requests, capacities) ==
    /\ DFU_INTF_EEPROM \in BOOLEAN
    /\ DFU_CAN_UPLOAD \in BOOLEAN
    /\ DFU_STR_MANUF \in texts
    /\ DFU_STR_PRODUCT \in texts
    /\ DFU_STR_INTF0 \in texts
    /\ DFU_STR_INTF1 \in texts
    /\ \E w \in requests : req = [wValue |-> w]
    /\ len \in capacities
    /\ len0 = len
    /\ address = NULL
    /\ address0 = NULL
    /\ ret = "none"
    /\ pc = "call"
    /\ first = NoCall

Init == InitWith(Texts, Requests, Capacities)

InitSeq == InitWith(Texts, SeqRequests, SeqCapacities)

InitAll == InitWith({<<83>>}, AllRequests, FewCapacities)

(***************************************************************************)
(* The call.                                                               *)
(***************************************************************************)
dfu_get_descriptor ==
    /\ pc = "call"
    /\ LET out == Outcome(req.wValue, address, len)
       IN /\ ret' = out.ret
          /\ address' = out.address
          /\ len' = out.len
          /\ first' = IF first = NoCall
                      THEN CallRecord(req.wValue, len, out)
                      ELSE first
    /\ pc' = "done"
    /\ UNCHANGED <<config, req, address0, len0>>

(***************************************************************************)
(* The next GET_DESCRIPTOR request of the host: the handler fills req and  *)
(* *len again; *address keeps what the last call left there.               *)
(***************************************************************************)
GetDescriptorRequest ==
    /\ pc = "done"
    /\ \E w \in SeqRequests : req' = [wValue |-> w]
    /\ \E c \in SeqCapacities : len' = c /\ len0' = c
    /\ address0' = address
    /\ ret' = "none"
    /\ pc' = "call"
    /\ UNCHANGED <<config, address, first>>

Next == dfu_get_descriptor

Spec == Init /\ [][Next]_vars

NextSeq == dfu_get_descriptor \/ GetDescriptorRequest

SpecSeq == InitSeq /\ [][NextSeq]_vars

SpecAll == InitAll /\ [][Next]_vars

(***************************************************************************)
(* Properties.  The request is read here straight from wValue, and the     *)
(* sizes are the ones the USB 2.0 and DFU 1.1 formats fix.                 *)
(***************************************************************************)
ReqType == req.wValue \div 256
ReqIndex == req.wValue % 256
Returned == pc = "done"
StringTableSize == IF DFU_INTF_EEPROM THEN 6 ELSE 5
CompositeSize == IF DFU_INTF_EEPROM THEN 36 ELSE 27

\* C1: a STRING request succeeds exactly for the indices below the size of
\* the string table (5 without the EEPROM interface, 6 with it), whatever
\* the capacity.
C1_StringIndexBounds ==
    (Returned /\ ReqType = USB_DTYPE_STRING) =>
        /\ (ReqIndex >= StringTableSize => ret = usbd_fail)
        /\ (ReqIndex < StringTableSize => ret = usbd_ack)
        /\ countof(dtable) = StringTableSize

C1_Witness ==
    /\ Returned /\ ReqType = USB_DTYPE_STRING
    /\ ~DFU_INTF_EEPROM /\ ReqIndex = 5 /\ len0 = 65535
    /\ ret = usbd_fail

\* C2: every descriptor type other than DEVICE, CONFIGURATION and STRING
\* fails, for every index and capacity.
C2_UnknownTypeFails ==
    (Returned /\ ReqType \notin {1, 2, 3}) => ret = usbd_fail

C2_Witness ==
    /\ Returned /\ ReqType = 4 /\ ReqIndex = 1 /\ len0 = 64
    /\ ret = usbd_fail

\* C3: a DEVICE request (any index, any capacity) and a STRING request with
\* an index in range return usbd_ack, a non-null reference to that
\* descriptor and its own bLength as the length; for DEVICE the length is 18.
C3_LengthIsOwnBLength ==
    (Returned /\ (\/ ReqType = USB_DTYPE_DEVICE
                  \/ ReqType = USB_DTYPE_STRING /\ ReqIndex < StringTableSize)) =>
        /\ ret = usbd_ack
        /\ address # NULL
        /\ address \in Objects
        /\ len = Deref(address).bLength
        /\ Deref(address).bDescriptorType = ReqType
        /\ ReqType = USB_DTYPE_DEVICE =>
              address = "dfu_device_desc" /\ len = 18
        /\ ReqType = USB_DTYPE_STRING =>
              /\ address = dtable[ReqIndex + 1]
              /\ len = 2 + 2 * Len(Deref(address).wString)

C3_Witness ==
    /\ Returned /\ ReqType = USB_DTYPE_DEVICE /\ ReqIndex = 255 /\ len0 = 0
    /\ ret = usbd_ack /\ address = "dfu_device_desc" /\ len = 18

\* C4 (as claimed): a CONFIGURATION request always succeeds with the
\* configuration descriptor and its true total length, whatever the capacity.
C4_AlwaysTotalLength ==
    (Returned /\ ReqType = USB_DTYPE_CONFIGURATION) =>
        /\ ret = usbd_ack
        /\ address = "dfu_config_desc"
        /\ len = dfu_config_desc.config.wTotalLength

\* the sum of the bLength fields of the members of the composite
RECURSIVE SumBLength(_, _)
SumBLength(composite, members) ==
    IF members = {} THEN 0
    ELSE LET m == CHOOSE x \in members : TRUE
         IN composite[m].bLength + SumBLength(composite, members \ {m})

\* C5: wTotalLength is the sum of the bLength fields of the header, every
\* embedded interface descriptor and the functional descriptor in both
\* builds, and every embedded record's bLength is its encoded size.
C5_TotalLengthIsSum ==
    LET d == dfu_config_desc
        t == config_desc
    IN /\ DOMAIN d =
             IF DFU_INTF_EEPROM THEN {"config", "flash", "eeprom", "dfufunc"}
                                ELSE {"config", "flash", "dfufunc"}
       /\ d.config.wTotalLength = SumBLength(d, DOMAIN d)
       /\ d.config.wTotalLength = CompositeSize
       /\ \A m \in DOMAIN d :
             /\ DOMAIN d[m] = DOMAIN t[m]
             /\ d[m].bLength = SumWidths(t[m], DOMAIN d[m])

C5_Witness ==
    /\ Returned /\ ReqType = USB_DTYPE_CONFIGURATION /\ DFU_INTF_EEPROM
    /\ ret = usbd_ack /\ Deref(address).config.wTotalLength = 36
    /\ Deref(address).eeprom.bLength = 9

\* the string indices the device descriptor names
DeviceStringIndices ==
    {dfu_device_desc.iManufacturer, dfu_device_desc.iProduct,
     dfu_device_desc.iSerialNumber}

\* C6 (as claimed): bNumConfigurations is 1 and a STRING request for each of
\* iManufacturer, iProduct and iSerialNumber succeeds.
C6_DeviceStringsResolve ==
    /\ dfu_device_desc.bNumConfigurations = 1
    /\ (Returned /\ ReqType = USB_DTYPE_STRING /\ ReqIndex \in DeviceStringIndices)
          => ret = usbd_ack

\* C6 (amended): bNumConfigurations is 1; iManufacturer and iProduct are
\* positions of the string table and requests for them succeed with the
\* manufacturer and product entries; iSerialNumber is 0xFE, which is no
\* position of the table, and a request for it fails.
C6_DeviceStringsAmended ==
    /\ dfu_device_desc.bNumConfigurations = 1
    /\ dfu_device_desc.iManufacturer < StringTableSize
    /\ dfu_device_desc.iProduct < StringTableSize
    /\ dfu_device_desc.iSerialNumber = 254
    /\ dfu_device_desc.iSerialNumber >= StringTableSize
    /\ (Returned /\ ReqType = USB_DTYPE_STRING) =>
          /\ ReqIndex = dfu_device_desc.iManufacturer =>
                ret = usbd_ack /\ address = "dfu_manuf_sdesc"
          /\ ReqIndex = dfu_device_desc.iProduct =>
                ret = usbd_ack /\ address = "dfu_product_sdesc"
          /\ ReqIndex = dfu_device_desc.iSerialNumber => ret = usbd_fail

C6_Witness ==
    /\ Returned /\ ReqType = USB_DTYPE_STRING
    /\ ReqIndex = dfu_device_desc.iProduct
    /\ ret = usbd_ack /\ address = "dfu_product_sdesc"

\* C7: string index 0 is the language-ID list, 1 the manufacturer, 2 the
\* product, 3 the configuration name, 4 the flash-interface name and, with
\* the EEPROM interface, 5 its name; iConfiguration and the iInterface
\* fields point at exactly those entries.
C7_StringOrder ==
    LET d == dfu_config_desc
    IN
    /\ d.config.iConfiguration = 3
    /\ d.flash.iInterface = 4
    /\ DFU_INTF_EEPROM => d.eeprom.iInterface = 5
    /\ (Returned /\ ReqType = USB_DTYPE_STRING /\ ret = usbd_ack) =>
          /\ ReqIndex = 0 =>
                /\ address = "dfu_lang_sdesc"
                /\ Deref(address).wString = <<1033>>
                /\ len = 4
          /\ ReqIndex = 1 =>
                address = "dfu_manuf_sdesc" /\ Deref(address).wString = DFU_STR_MANUF
          /\ ReqIndex = 2 =>
                address = "dfu_product_sdesc" /\ Deref(address).wString = DFU_STR_PRODUCT
          /\ ReqIndex = d.config.iConfiguration =>
                address = "dfu_config_sdesc" /\ Deref(address).wString = DfuModeText
          /\ ReqIndex = d.flash.iInterface =>
                address = "dfu_flash_sdesc" /\ Deref(address).wString = DFU_STR_INTF0
          /\ ReqIndex = 5 =>
                /\ DFU_INTF_EEPROM
                /\ ReqIndex = d.eeprom.iInterface
                /\ address = "dfu_eeprom_sdesc"
                /\ Deref(address).wString = DFU_STR_INTF1
          /\ ReqIndex <= 5

C7_Witness ==
    /\ Returned /\ ReqType = USB_DTYPE_STRING /\ ReqIndex = 2
    /\ ret = usbd_ack /\ address = "dfu_product_sdesc"
    /\ DFU_STR_PRODUCT # DFU_STR_MANUF

\* whether bit b (a power of two) is set in the byte x
Bit(x, b) == (x \div b) % 2 = 1

\* C8: with upload enabled the functional descriptor advertises exactly
\* can-download, can-upload and manifestation-tolerant, and not will-detach;
\* with upload disabled exactly can-download, will-detach and
\* manifestation-tolerant.
C8_CapabilityFlags ==
    LET a == dfu_config_desc.dfufunc.bmAttributes
    IN /\ a \in 0 .. 15
       /\ Bit(a, 1)
       /\ Bit(a, 4)
       /\ Bit(a, 2) <=> DFU_CAN_UPLOAD
       /\ Bit(a, 8) <=> ~DFU_CAN_UPLOAD

C8_Witness ==
    /\ Returned /\ ReqType = USB_DTYPE_CONFIGURATION /\ ret = usbd_ack
    /\ DFU_CAN_UPLOAD
    /\ Deref(address).dfufunc.bmAttributes = 7

\* C9: a CONFIGURATION request never fails; below the composite size the
\* length written back is the header's bLength (9), never 0, and from the
\* composite size on it is the composite size.
C9_ConfigLengthFallback ==
    (Returned /\ ReqType = USB_DTYPE_CONFIGURATION) =>
        /\ ret = usbd_ack
        /\ address = "dfu_config_desc"
        /\ len # 0
        /\ len0 < CompositeSize =>
              len = 9 /\ len = dfu_config_desc.config.bLength
        /\ len0 >= CompositeSize => len = CompositeSize

C9_Witness ==
    /\ Returned /\ ReqType = USB_DTYPE_CONFIGURATION /\ len0 = 4
    /\ ret = usbd_ack /\ address = "dfu_config_desc" /\ len = 9

\* the contents of the descriptor tables
Tables ==
    <<dfu_device_desc, dfu_config_desc, dtable,
      [i \in 1 .. Len(dtable) |-> Deref(dtable[i])]>>

\* the call that just returned repeats the first request of the run
RepeatsFirst ==
    /\ Returned /\ first # NoCall
    /\ first.wValue = req.wValue /\ first.capacity = len0

\* C10: a failing call leaves *address and *len as they were, no call
\* changes the tables or the request, and a request repeated after any
\* other requests yields the status, reference and length it yielded first.
C10_NoSideEffects ==
    [][(pc = "call" /\ pc' = "done") =>
          /\ Tables' = Tables
          /\ req' = req
          /\ ret' = usbd_fail => (address' = address /\ len' = len)
          /\ ret' \in {usbd_fail, usbd_ack}
          /\ RepeatsFirst' =>
                /\ ret' = first'.ret
                /\ ret' = usbd_ack =>
                      (address' = first'.address /\ len' = first'.len)]_vars

C10_Witness ==
    /\ RepeatsFirst
    /\ ret = usbd_fail
    /\ address0 = "dfu_config_desc"
    /\ address = address0 /\ len = len0

====
